---- MODULE Spec2Model ----
(***************************************************************************)
(* Model of src/fhir-api.ts: the FHIR resource controller                  *)
(* (FHIRResourceController / PatientController), the validator, the search *)
(* parameter builder and the two Patient routes.                           *)
(*                                                                         *)
(* Callers are modelled as clients that invoke one operation at a time.    *)
(* Every controller method is an async function whose caller awaits it, so *)
(* a call is two steps: the invocation, and the completion after the       *)
(* await.  Calls of different clients interleave between the two.  The     *)
(* synchronous prefix of a method reads no shared state, so its effect is  *)
(* computed in the completion step.                                        *)
(*                                                                         *)
(* Spec has NumClients callers; ConcSpec has one more, so that two calls   *)
(* are in flight together even at the smallest bound.                      *)
(***************************************************************************)
EXTENDS Naturals, Sequences, FiniteSets

\* Number of callers of Spec.
NumClients == 1

SeqClients == 1..NumClients

ConcClients == 1..(NumClients + 1)

\* A property that is not set on a JavaScript object.
Undefined == "undefined"

\* The value of a call that returns nothing (Promise<void>).
Void == "void"

(***************************************************************************)
(* Inputs                                                                  *)
(***************************************************************************)
\* resourceType values a request body may carry: none, a kind the code
\* declares, a kind it does not declare.
ResourceTypes == {Undefined, "Patient", "Banana"}

\* Resource kinds the source names.
KnownKinds == {"Patient", "Observation"}

\* Ids used in request paths.
Ids == {"p1", "p2"}

\* id values a request body may carry.
BodyIds == {Undefined, "p1"}

\* meta.versionId values a request body may carry.
VersionIds == {Undefined, "1"}

Genders == {"female", "other"}

\* interface FHIRResource / interface Patient, restricted to the fields the
\* properties below speak about.
Resources ==
    [resourceType : ResourceTypes, id : BodyIds,
     versionId : VersionIds, gender : Genders]

\* {} as T
EmptyObject ==
    [resourceType |-> Undefined, id |-> Undefined,
     versionId |-> Undefined, gender |-> Undefined]

\* Search parameter names the source uses.
KnownSearchFields == {"name"}

\* Record<string, string> arguments of search, as their entries in order.
ParamSets ==
    { <<>>,
      << <<"name", "Smith">> >>,
      << <<"bogus", "x">> >>,
      << <<"name", "Smith">>, <<"bogus", "x">> >> }

Names == {"Smith"}

(***************************************************************************)
(* Outcomes of a call                                                      *)
(***************************************************************************)
Return(v) == [kind |-> "return", value |-> v, responses |-> <<>>]

Throw(m) == [kind |-> "throw", value |-> m, responses |-> <<>>]

\* An HTTP handler returns nothing and has sent `rs` on its response object.
Responded(rs) == [kind |-> "return", value |-> Void, responses |-> rs]

\* The message of the only error the validator throws.
ResourceTypeRequired == "Resource type is required"

\* JavaScript's !x for a string-or-undefined x.
Falsy(x) == x = Undefined \/ x = ""

(***************************************************************************)
(* The store.  Each path id maps to its version history, the last entry    *)
(* being the current version.                                              *)
(***************************************************************************)
EmptyStore == [i \in Ids |-> <<>>]

(***************************************************************************)
(* Validator and search parameter builder                                  *)
(***************************************************************************)
\* A validator that accepts every candidate.
validateResourceNoCheck(resource) == Return(Void)

validateResource(resource) ==
    IF Falsy(resource.resourceType)
    THEN Throw(ResourceTypeRequired)
    ELSE Return(Void)

createSearchParameters(params) ==
    [i \in 1..Len(params) |-> [name |-> params[i][1], value |-> params[i][2]]]

(***************************************************************************)
(* FHIRResourceController.  Each method takes the store and yields the     *)
(* call's outcome and the store it leaves.                                 *)
(***************************************************************************)
\* A create that writes the candidate to the store before validating it.
createStoreFirst(st, resource) ==
    LET v == validateResource(resource)
        key == IF resource.id = Undefined THEN "p1" ELSE resource.id
        written == [st EXCEPT ![key] = Append(@, resource)]
    IN  [outcome |-> IF v.kind = "throw" THEN v ELSE Return(resource),
         store |-> written]

create(st, resource) ==
    LET v == validateResource(resource)
    IN  [outcome |-> IF v.kind = "throw" THEN v ELSE Return(resource),
         store |-> st]

read(st, id) == [outcome |-> Return(EmptyObject), store |-> st]

search(st, params) ==
    LET searchParams == createSearchParameters(params)
    IN  [outcome |-> Return(<<>>), store |-> st]

update(st, id, resource) ==
    LET v == validateResource(resource)
    IN  [outcome |-> IF v.kind = "throw" THEN v ELSE Return(resource),
         store |-> st]

delete(st, id) == [outcome |-> Return(Void), store |-> st]

(***************************************************************************)
(* PatientController                                                       *)
(***************************************************************************)
searchByName(st, name) == search(st, << <<"name", name>> >>)

getPatientHistory(st, id) == [outcome |-> Return(<<>>), store |-> st]

(***************************************************************************)
(* Routes                                                                  *)
(***************************************************************************)
routerPostPatient(st, body) ==
    LET r == create(st, body)
    IN  [outcome |->
            IF r.outcome.kind = "return"
            THEN Responded(<< [status |-> 201, body |-> r.outcome.value] >>)
            ELSE Responded(<< [status |-> 400,
                               body |-> [error |-> r.outcome.value]] >>),
         store |-> r.store]

routerGetPatientId(st, id) ==
    LET r == read(st, id)
    IN  [outcome |->
            IF r.outcome.kind = "return"
            THEN Responded(<< [status |-> 200, body |-> r.outcome.value] >>)
            ELSE Responded(<< [status |-> 404,
                               body |-> [error |-> "Patient not found"]] >>),
         store |-> r.store]

(***************************************************************************)
(* State                                                                   *)
(***************************************************************************)
VARIABLES
    pc,         \* per client: "idle" or "awaiting" (suspended at the await)
    call,       \* per client: the call in flight, or the last one made
    result,     \* per client: the outcome of the last completed call
    store,      \* the controller's storage
    acked,      \* history: per id, what callers have been told about it
    overtaken   \* history: per client, whether an update of the same existing
                \* id with the same token completed successfully while its
                \* own update was in flight

vars == <<pc, call, result, store, acked, overtaken>>

NoCall ==
    [op |-> "none", id |-> Undefined, resource |-> EmptyObject, params |-> <<>>]

NoResult == [kind |-> "none", value |-> Void, responses |-> <<>>]

Call(o, i, r, p) == [op |-> o, id |-> i, resource |-> r, params |-> p]

\* The clients of the behaviour.
Clients == DOMAIN pc

InitOf(C) ==
    /\ pc = [c \in C |-> "idle"]
    /\ call = [c \in C |-> NoCall]
    /\ result = [c \in C |-> NoResult]
    /\ store = EmptyStore
    /\ acked = [i \in Ids |-> "none"]
    /\ overtaken = [c \in C |-> FALSE]

Init == InitOf(SeqClients)

ConcInit == InitOf(ConcClients)

\* Client c has invoked `k`, which is suspended at its await.
Invoked(c, k) ==
    /\ pc' = [pc EXCEPT ![c] = "awaiting"]
    /\ call' = [call EXCEPT ![c] = k]
    /\ result' = [result EXCEPT ![c] = NoResult]
    /\ overtaken' = [overtaken EXCEPT ![c] = FALSE]

Create(c) ==
    /\ pc[c] = "idle"
    /\ \E r \in Resources : Invoked(c, Call("create", Undefined, r, <<>>))
    /\ UNCHANGED <<store, acked>>

Read(c) ==
    /\ pc[c] = "idle"
    /\ \E i \in Ids : Invoked(c, Call("read", i, EmptyObject, <<>>))
    /\ UNCHANGED <<store, acked>>

Search(c) ==
    /\ pc[c] = "idle"
    /\ \E p \in ParamSets :
          Invoked(c, Call("search", Undefined, EmptyObject, p))
    /\ UNCHANGED <<store, acked>>

Update(c) ==
    /\ pc[c] = "idle"
    /\ \E i \in Ids, r \in Resources :
          Invoked(c, Call("update", i, r, <<>>))
    /\ UNCHANGED <<store, acked>>

Delete(c) ==
    /\ pc[c] = "idle"
    /\ \E i \in Ids : Invoked(c, Call("delete", i, EmptyObject, <<>>))
    /\ UNCHANGED <<store, acked>>

SearchByName(c) ==
    /\ pc[c] = "idle"
    /\ \E n \in Names :
          Invoked(c, Call("searchByName", Undefined, EmptyObject,
                          << <<"name", n>> >>))
    /\ UNCHANGED <<store, acked>>

GetPatientHistory(c) ==
    /\ pc[c] = "idle"
    /\ \E i \in Ids :
          Invoked(c, Call("getPatientHistory", i, EmptyObject, <<>>))
    /\ UNCHANGED <<store, acked>>

PostPatient(c) ==
    /\ pc[c] = "idle"
    /\ \E r \in Resources :
          Invoked(c, Call("POST /Patient", Undefined, r, <<>>))
    /\ UNCHANGED <<store, acked>>

GetPatient(c) ==
    /\ pc[c] = "idle"
    /\ \E i \in Ids :
          Invoked(c, Call("GET /Patient/:id", i, EmptyObject, <<>>))
    /\ UNCHANGED <<store, acked>>

\* What the call `k` does on the store `st`.
Run(k, st) ==
    CASE k.op = "create" -> create(st, k.resource)
      [] k.op = "read" -> read(st, k.id)
      [] k.op = "search" -> search(st, k.params)
      [] k.op = "update" -> update(st, k.id, k.resource)
      [] k.op = "delete" -> delete(st, k.id)
      [] k.op = "searchByName" -> searchByName(st, k.params[1][2])
      [] k.op = "getPatientHistory" -> getPatientHistory(st, k.id)
      [] k.op = "POST /Patient" -> routerPostPatient(st, k.resource)
      [] k.op = "GET /Patient/:id" -> routerGetPatientId(st, k.id)

\* The resource a successful create handed back to its caller, if any.
Created(k, out) ==
    CASE k.op = "create" /\ out.kind = "return" -> out.value
      [] k.op = "POST /Patient" /\ out.responses[1].status = 201 ->
            out.responses[1].body
      [] OTHER -> EmptyObject

\* The call of client c resumes after its await and completes.
Complete(c) ==
    /\ pc[c] = "awaiting"
    /\ LET r == Run(call[c], store)
           made == Created(call[c], r.outcome)
       IN  /\ result' = [result EXCEPT ![c] = r.outcome]
           /\ store' = r.store
           /\ acked' =
                [i \in Ids |->
                    IF made.id = i /\ acked[i] = "none" THEN "active"
                    ELSE IF /\ call[c].op = "delete"
                            /\ call[c].id = i
                            /\ r.outcome.kind = "return"
                            /\ acked[i] = "active" THEN "deleted"
                    ELSE acked[i]]
           /\ overtaken' =
                [d \in Clients |->
                    IF /\ d # c
                       /\ call[c].op = "update"
                       /\ r.outcome.kind = "return"
                       /\ acked[call[c].id] = "active"
                       /\ pc[d] = "awaiting"
                       /\ call[d].op = "update"
                       /\ call[d].id = call[c].id
                       /\ call[d].resource.versionId = call[c].resource.versionId
                    THEN TRUE
                    ELSE overtaken[d]]
    /\ pc' = [pc EXCEPT ![c] = "idle"]
    /\ UNCHANGED call

Next ==
    \E c \in SeqClients :
        \/ Create(c)
        \/ Read(c)
        \/ Search(c)
        \/ Update(c)
        \/ Delete(c)
        \/ SearchByName(c)
        \/ GetPatientHistory(c)
        \/ PostPatient(c)
        \/ GetPatient(c)
        \/ Complete(c)

ConcNext ==
    \E c \in ConcClients :
        \/ Create(c)
        \/ Read(c)
        \/ Search(c)
        \/ Update(c)
        \/ Delete(c)
        \/ SearchByName(c)
        \/ GetPatientHistory(c)
        \/ PostPatient(c)
        \/ GetPatient(c)
        \/ Complete(c)

Spec == Init /\ [][Next]_vars

ConcSpec == ConcInit /\ [][ConcNext]_vars

(***************************************************************************)
(* Vocabulary of the properties                                            *)
(***************************************************************************)
\* Client c has made a call and it has completed.
Done(c) == pc[c] = "idle" /\ call[c].op # "none"

\* The step completes the call of client c.
Completes(c) == pc[c] = "awaiting" /\ pc'[c] = "idle"

\* The candidate has no resourceType.
Missing(r) == r.resourceType = Undefined

\* The candidate is of a resource kind the source names.
Valid(r) == r.resourceType \in KnownKinds

\* The concurrency token of an update: the version the caller's copy carries.
Token(k) == k.resource.versionId

\* The version after version v.
NextVersion(v) == IF v = "1" THEN "2" ELSE "3"

\* The outcome reports a failure to the caller.
Failed(out) ==
    \/ out.kind = "throw"
    \/ /\ out.responses # <<>>
       /\ out.responses[1].status >= 400

\* h is an initial segment of g.
IsPrefix(h, g) == Len(h) <= Len(g) /\ \A n \in 1..Len(h) : h[n] = g[n]

(***************************************************************************)
(* C1: a create of a valid resource with no id, followed by a read of the  *)
(* id create assigned, returns the resource unchanged except for the       *)
(* server-assigned id, versionId = 1 and lastUpdated.                      *)
(***************************************************************************)
C1_CreateThenRead ==
    \A c \in Clients :
        ( /\ Done(c)
          /\ call[c].op = "create"
          /\ Valid(call[c].resource)
          /\ call[c].resource.id = Undefined
          /\ \A d \in Clients \ {c} : call[d].op = "none" )
        => /\ result[c].kind = "return"
           /\ result[c].value.id # Undefined
           /\ result[c].value.versionId = "1"
           /\ LET got == read(store, result[c].value.id).outcome
              IN  /\ got.kind = "return"
                  /\ got.value.id = result[c].value.id
                  /\ got.value.versionId = "1"
                  /\ got.value.resourceType = call[c].resource.resourceType
                  /\ got.value.gender = call[c].resource.gender

(***************************************************************************)
(* C2: validation succeeds for every valid resource and fails with the     *)
(* missing-resourceType error for every candidate without a resourceType;  *)
(* create and update of such a candidate fail with that error and never    *)
(* return it, and create and update of a valid resource return it.         *)
(***************************************************************************)
C2_ValidateMissingResourceType ==
    /\ \A r \in Resources :
          /\ Valid(r) => validateResource(r).kind = "return"
          /\ Missing(r) => validateResource(r) = Throw(ResourceTypeRequired)
    /\ \A c \in Clients :
          (Done(c) /\ call[c].op \in {"create", "update"})
          => /\ Missing(call[c].resource)
                 => result[c] = Throw(ResourceTypeRequired)
             /\ Valid(call[c].resource)
                 => result[c] = Return(call[c].resource)

\* An update of a candidate without resourceType has failed.
C2_Witness ==
    \E c \in Clients :
        /\ Done(c)
        /\ call[c].op = "update"
        /\ Missing(call[c].resource)
        /\ result[c] = Throw(ResourceTypeRequired)

(***************************************************************************)
(* C3: a resource whose resourceType is present but not a known kind is    *)
(* rejected: no create or update returns it.                               *)
(***************************************************************************)
C3_UnknownKindRejected ==
    \A c \in Clients :
        ( /\ Done(c)
          /\ call[c].op \in {"create", "update"}
          /\ ~Missing(call[c].resource)
          /\ ~Valid(call[c].resource) )
        => result[c].kind = "throw"

(***************************************************************************)
(* C4: an update of an existing resource fails with ConflictVersion when   *)
(* its token does not match the stored versionId (a call without a token   *)
(* matches none), and when it succeeds the versionId becomes the token's   *)
(* successor.                                                              *)
(***************************************************************************)
C4_UpdateToken ==
    [][ \A c \in Clients :
          ( /\ Completes(c)
            /\ call[c].op = "update"
            /\ Valid(call[c].resource)
            /\ acked[call[c].id] = "active" )
          => /\ Token(call[c]) = Undefined
                 => result'[c] = Throw("ConflictVersion")
             /\ result'[c].kind = "return"
                 => /\ Token(call[c]) # Undefined
                    /\ result'[c].value.versionId = NextVersion(Token(call[c]))
      ]_vars

(***************************************************************************)
(* C5: after a delete of an existing resource has succeeded, every read of *)
(* its id fails with Gone, and its version history is still returned.      *)
(***************************************************************************)
C5_DeleteThenGone ==
    [][ \A c \in Clients :
          ( /\ Completes(c)
            /\ call[c].op \in {"read", "getPatientHistory"}
            /\ acked[call[c].id] = "deleted" )
          => /\ call[c].op = "read" => result'[c] = Throw("Gone")
             /\ call[c].op = "getPatientHistory"
                 => result'[c].kind = "return" /\ result'[c].value # <<>>
      ]_vars

(***************************************************************************)
(* C6: of two updates of the same existing id that are in flight together  *)
(* and carry the same token, at most one succeeds.                         *)
(***************************************************************************)
C6_NoLostUpdate ==
    \A c \in Clients :
        ~ ( /\ Done(c)
            /\ call[c].op = "update"
            /\ Token(call[c]) # Undefined
            /\ overtaken[c]
            /\ result[c].kind = "return" )

C8_StatusCodes ==
    [][ \A c \in Clients :
          ( /\ Completes(c)
            /\ call[c].op \in {"POST /Patient", "GET /Patient/:id"} )
          => /\ Len(result'[c].responses) = 1
             /\ LET resp == result'[c].responses[1]
                IN  /\ (call[c].op = "POST /Patient" /\ Valid(call[c].resource))
                        => /\ resp.status = 201
                           /\ resp.body.resourceType
                                = call[c].resource.resourceType
                           /\ resp.body.gender = call[c].resource.gender
                    /\ (call[c].op = "POST /Patient" /\ Missing(call[c].resource))
                        => resp.status = 400
                    /\ (call[c].op = "GET /Patient/:id"
                          /\ acked[call[c].id] = "active")
                        => resp.status = 200
                    /\ (call[c].op = "GET /Patient/:id"
                          /\ acked[call[c].id] = "none")
                        => resp.status = 404
      ]_vars

(***************************************************************************)
(* C9: the version history of every id only grows by appending, and a      *)
(* successful update adds exactly one version to the history of its id.    *)
(***************************************************************************)
C9_HistoryAppendOnly ==
    [][ /\ \A i \in Ids :
             IsPrefix(getPatientHistory(store, i).outcome.value,
                      getPatientHistory(store', i).outcome.value)
        /\ \A c \in Clients :
             ( /\ Completes(c)
               /\ call[c].op = "update"
               /\ result'[c].kind = "return" )
             => Len(getPatientHistory(store', call[c].id).outcome.value)
                  = Len(getPatientHistory(store, call[c].id).outcome.value) + 1
      ]_vars

(***************************************************************************)
(* C10: a search with a parameter name that is not a recognised search     *)
(* field fails with UnsupportedParameter instead of returning a result.    *)
(***************************************************************************)
C10_UnknownParameterRejected ==
    \A c \in Clients :
        ( /\ Done(c)
          /\ call[c].op = "search"
          /\ \E n \in 1..Len(call[c].params) :
                call[c].params[n][1] \notin KnownSearchFields )
        => result[c] = Throw("UnsupportedParameter")

====
